---- MODULE Spec2Model ----
(***************************************************************************)
(* CanvasGraph: the force-directed layout and interactive canvas engine of *)
(* relnet (frontend component CanvasGraph, src/unnamed/part_003:1-713).    *)
(*                                                                         *)
(* Numbers.  JavaScript numbers are modelled as exact rationals <<n, d>>   *)
(* (d > 0, lowest terms) everywhere outside the physics step, so that the  *)
(* viewport algebra (divide by scale, multiply by scale) is computed and   *)
(* not assumed.  The physics step works in fixed point, in units of        *)
(* 1/PhysRes pixel, rounding after every multiplication or division, which *)
(* stands for the rounding of IEEE doubles at a coarser grain.             *)
(*                                                                         *)
(* Scheduling.  Every event handler, and every animation-frame callback,   *)
(* runs to completion on the one UI thread; the re-render and the effects  *)
(* that its state updates trigger are part of the same action.             *)
(***************************************************************************)
EXTENDS Integers, Sequences, FiniteSets, TLC

----------------------------------------------------------------------------
(* Rational arithmetic                                                     *)

Abs(a) == IF a < 0 THEN -a ELSE a

RECURSIVE GCD(_, _)
GCD(a, b) == IF b = 0 THEN a ELSE GCD(b, a % b)

Norm(n, d) ==
  LET g == GCD(Abs(n), Abs(d))
      s == IF d < 0 THEN -1 ELSE 1
  IN  <<s * (n \div g), s * (d \div g)>>

R(n) == <<n, 1>>
Zero == R(0)
One == R(1)

RNeg(a) == <<-a[1], a[2]>>

RAdd(a, b) ==
  LET g == GCD(a[2], b[2])
  IN  Norm(a[1] * (b[2] \div g) + b[1] * (a[2] \div g), a[2] * (b[2] \div g))

RSub(a, b) == RAdd(a, RNeg(b))

RMul(a, b) ==
  LET g1 == GCD(Abs(a[1]), b[2])
      g2 == GCD(Abs(b[1]), a[2])
  IN  IF a[1] = 0 \/ b[1] = 0 THEN Zero
      ELSE Norm((a[1] \div g1) * (b[1] \div g2), (a[2] \div g2) * (b[2] \div g1))

\* a / b for b # 0
RDiv(a, b) == RMul(a, IF b[1] < 0 THEN <<-b[2], -b[1]>> ELSE <<b[2], b[1]>>)

RLt(a, b) == RSub(a, b)[1] < 0
RLe(a, b) == RSub(a, b)[1] <= 0
RMin(a, b) == IF RLe(a, b) THEN a ELSE b
RMax(a, b) == IF RLe(a, b) THEN b ELSE a

\* round-to-nearest (halves away from zero), as an integer
DivRound(n, d) ==
  LET q == Abs(n) \div d
      r == Abs(n) % d
      m == q + (IF 2 * r >= d THEN 1 ELSE 0)
  IN  IF n < 0 THEN -m ELSE m
RRound(a) == DivRound(a[1], a[2])
\* Math.ceil
RCeil(a) == -((-a[1]) \div a[2])

----------------------------------------------------------------------------
(* Program constants (src/unnamed/part_003:37-47)                           *)

NODE_RADIUS == 45
MIN_DISTANCE == 110
MAX_DISTANCE == 500
REPULSION_STRENGTH == 500
ATTRACTION_STRENGTH == <<1, 10>>
CONSTRAINT_STRENGTH == <<1, 5>>
DAMPING == <<3, 5>>
CENTER_GRAVITY == <<1, 100>>
MAX_VELOCITY == 5
COOLING_FACTOR == <<99, 100>>

\* handleWheel: zoom factors and the clamp of the scale
ZoomInFactor == <<11, 10>>
ZoomOutFactor == <<9, 10>>
MinScale == <<1, 10>>
MaxScale == R(5)

----------------------------------------------------------------------------
(* Bounds of the model                                                     *)

\* grid of the finite-precision computations: 1/PhysRes pixel
PhysRes == 100
\* events handled after the mount (pointer, wheel, click, physics frame,
\* scene refresh), and the wheel events among them
MaxSteps == 3
MaxWheel == 2
\* the largest Scene laid out from scratch
MaxNodes == 12
\* a Scene too large for its canvas, and the physics ticks it is followed for
CrowdCount == 40
SettleTicks == 12

----------------------------------------------------------------------------
(* The host's inputs                                                       *)

Range(s) == { s[i] : i \in 1..Len(s) }

NoNode == "null"
Ids == {"a", "b", "c"}

\* Scene snapshots the host supplies: data.nodes in order, data.edges
Scenes ==
  { [nodes |-> <<"a", "b">>, edges |-> {<<"a", "b">>}],
    [nodes |-> <<"a", "b", "c">>, edges |-> {<<"a", "b">>, <<"b", "c">>}],
    [nodes |-> <<"b">>, edges |-> {<<"a", "b">>}],
    [nodes |-> <<>>, edges |-> {}] }
InitialScene == [nodes |-> <<"a", "b">>, edges |-> {<<"a", "b">>}]

\* canvas size in pixels
CanvasWidth == 800
CanvasHeight == 600
\* sizes the host passes: the measured container, and the 0 x 0 it passes
\* before the container has been measured
Sizes == { <<CanvasWidth, CanvasHeight>>, <<0, 0>> }

\* pointer positions relative to the canvas (e.clientX - rect.left, ...)
Points ==
  { <<245, 300>>,    \* the first grid cell's centre
    <<265, 310>>,    \* inside a node drawn there, off its centre
    <<700, 40>> }    \* empty canvas, on the "Physics" button
\* where the pointer moves to: also far left, which takes a node grabbed at
\* (265, 310) in the first cell to world x = 0
MovePoints == Points \cup { <<20, 210>> }
\* where the wheel is turned, and where clicks land
WheelPoints == { <<245, 300>>, <<700, 40>> }
ClickPoints == { <<265, 310>>, <<700, 40>> }

\* runs of Math.random(): for each node the pair of values of
\* Math.random() - 0.5, each in [-1/2, 1/2), drawn for its x and its y
Jitter ==
  { [id \in Ids |-> <<Zero, Zero>>],
    [id \in Ids |-> IF id = "a" THEN <<<<-1, 10>>, <<1, 20>>>>
                    ELSE IF id = "b" THEN <<<<1, 4>>, <<-1, 2>>>>
                    ELSE <<<<-1, 2>>, <<1, 4>>>>] }

\* node ids of the Scenes that are laid out from scratch: the first n of these
NodeNames ==
  <<"a", "b", "c", "d", "e", "f", "g", "h", "i", "j", "k", "l",
     "m", "n", "o", "p", "q", "r", "s", "t", "u", "v", "w", "x",
     "y", "z", "aa", "ab", "ac", "ad", "ae", "af", "ag", "ah", "ai", "aj",
     "ak", "al", "am", "an", "ao", "ap", "aq", "ar", "as", "at", "au", "av" >>
FirstNodes(n) == SubSeq(NodeNames, 1, n)

\* canvases to lay out on: a window, a wide one, a tall one, and the strip
\* that is left of a phone's screen beside the open sidebar
LayoutSizes == { <<800, 600>>, <<1280, 720>>, <<400, 900>>, <<150, 600>> }

\* values of Math.random() - 0.5: the least, the middle, and a large one
JitterLow == <<-1, 2>>
JitterHigh == <<499, 1000>>
\* runs of Math.random() over a whole Scene: constant, or alternating
LayoutJitter ==
  { [id \in Range(NodeNames) |-> <<Zero, Zero>>],
    [id \in Range(NodeNames) |-> <<JitterLow, JitterLow>>],
    [id \in Range(NodeNames) |-> <<JitterHigh, JitterHigh>>],
    [id \in Range(NodeNames) |->
       IF id \in { NodeNames[2 * k] : k \in 1..(Len(NodeNames) \div 2) }
         THEN <<JitterLow, JitterHigh>> ELSE <<JitterHigh, JitterLow>>] }

\* scale is 1 at construction; 1/10 and 5 are what wheel events at screen
\* point (0, 0) clamp it to, and they leave panOffset at (0, 0)
InitScales == { MinScale, One, MaxScale }

----------------------------------------------------------------------------
(* State                                                                   *)

VARIABLES
  nodes, edges, width, height,      \* props: data.nodes, data.edges, width, height
  nodePositions,                    \* id -> [x, y, vx, vy]
  draggedNode, hoveredNode,         \* an id or NoNode (null)
  offsetX, offsetY,                 \* grab offset of the drag, world space
  isPanning, panOffset, panStart,   \* pan gesture and viewport translation
  scale,                            \* viewport zoom
  autoLayout,                       \* physics on/off
  animationRef,                     \* a physics frame is requested
  renderFrame,                      \* a render frame is requested
  physicsPending, renderPending,    \* callbacks in the browser's frame queue
  closure,                          \* the state of the last render, which the
                                    \* handlers and drawGraph have captured
  mounted,
  clickCalls, dragCalls,            \* calls made to onNodeClick / onNodeDrag
  ev,                               \* the last event handled, with what it saw
  steps, nWheel

vars ==
  <<nodes, edges, width, height, nodePositions, draggedNode, hoveredNode,
    offsetX, offsetY, isPanning, panOffset, panStart, scale, autoLayout,
    animationRef, renderFrame, physicsPending, renderPending, mounted,
    closure, clickCalls, dragCalls, ev, steps, nWheel>>

\* the state values that a render hands to the useCallback closures
Snapshot ==
  [nodePositions |-> nodePositions, draggedNode |-> draggedNode,
   offsetX |-> offsetX, offsetY |-> offsetY, isPanning |-> isPanning,
   panOffset |-> panOffset, panStart |-> panStart, scale |-> scale]

\* React has rendered the new state before anything else runs
Committed == closure' = Snapshot'

Pt(x, y) == [x |-> x, y |-> y]

Event(type, p, zoomIn) ==
  [type |-> type, x |-> p[1], y |-> p[2], zoomIn |-> zoomIn,
   wasDragged |-> draggedNode, wasPanning |-> isPanning]

----------------------------------------------------------------------------
(* Viewport transform                                                      *)

\* world = (screen - panOffset) / scale, one axis
ScreenToWorld(s, pan, sc) == RDiv(RSub(R(s), pan), sc)

\* (mutant) scale applied before translate
WorldToScreenScaleFirst(w, pan, sc) == RMul(RAdd(w, pan), sc)

\* ctx.translate(panOffset); ctx.scale(scale): screen = world * scale + panOffset
WorldToScreen(w, pan, sc) == RAdd(RMul(w, sc), pan)

\* a difference of world coordinates in units of 1/PhysRes, rounded
Units(a) == RRound(RMul(a, R(PhysRes)))

\* Math.sqrt(dx * dx + dy * dy) <= r, on the 1/PhysRes grid
WithinDistance(dx, dy, r) ==
  /\ RLe(dx, R(r)) /\ RLe(R(-r), dx)
  /\ RLe(dy, R(r)) /\ RLe(R(-r), dy)
  /\ Units(dx) * Units(dx) + Units(dy) * Units(dy) <= (r * PhysRes) * (r * PhysRes)

RECURSIVE FindFrom(_, _, _, _, _, _, _)
FindFrom(i, tx, ty, ns, pos, pan, sc) ==
  IF i = 0 THEN NoNode
  ELSE IF ns[i] \notin DOMAIN pos
         THEN FindFrom(i - 1, tx, ty, ns, pos, pan, sc)
       ELSE IF WithinDistance(RSub(pos[ns[i]].x, tx), RSub(pos[ns[i]].y, ty), NODE_RADIUS)
         THEN ns[i]
       ELSE FindFrom(i - 1, tx, ty, ns, pos, pan, sc)

\* (mutant) the nodes are tried in the order of the Scene, bottom-most first
RECURSIVE FindUpFrom(_, _, _, _, _)
FindUpFrom(i, tx, ty, ns, pos) ==
  IF i > Len(ns) THEN NoNode
  ELSE IF ns[i] \in DOMAIN pos
          /\ WithinDistance(RSub(pos[ns[i]].x, tx), RSub(pos[ns[i]].y, ty), NODE_RADIUS)
         THEN ns[i]
       ELSE FindUpFrom(i + 1, tx, ty, ns, pos)
findNodeAtPositionBottomFirst(x, y, ns, pos, pan, sc) ==
  FindUpFrom(1, ScreenToWorld(x, pan.x, sc), ScreenToWorld(y, pan.y, sc), ns, pos)

findNodeAtPosition(x, y, ns, pos, pan, sc) ==
  FindFrom(Len(ns), ScreenToWorld(x, pan.x, sc), ScreenToWorld(y, pan.y, sc),
           ns, pos, pan, sc)

----------------------------------------------------------------------------
(* Layout initializer (the first effect)                                   *)

\* Math.ceil(Math.sqrt(q)) for q >= 0: the least k with k * k >= q
RECURSIVE CeilSqrtFrom(_, _)
CeilSqrtFrom(k, q) == IF RLe(q, R(k * k)) THEN k ELSE CeilSqrtFrom(k + 1, q)
CeilSqrt(q) == CeilSqrtFrom(0, q)

IndexOf(ns, id) == (CHOOSE i \in 1..Len(ns) : ns[i] = id) - 1

\* data.nodes.every(node => nodePositions[id] && (x !== 0 || y !== 0))
allNodesHavePositions(pos, ns) ==
  \A id \in Range(ns) :
    id \in DOMAIN pos /\ (pos[id].x # Zero \/ pos[id].y # Zero)

\* the test of the forEach body: nodePositions[id] && x !== 0 && y !== 0
KeepsPosition(pos, id) ==
  id \in DOMAIN pos /\ pos[id].x # Zero /\ pos[id].y # Zero

padding == NODE_RADIUS * 2
availableWidth(w) == w - padding * 2
availableHeight(h) == h - padding * 2
\* (mutant) the aspect ratio of the canvas, not of the available area
gridColsCanvasAspect(n, w, h) == CeilSqrt(RMul(R(n), Norm(w, h)))

gridCols(n, w, h) ==
  CeilSqrt(RMul(R(n), Norm(availableWidth(w), availableHeight(h))))
gridRows(n, w, h) == RCeil(Norm(n, gridCols(n, w, h)))
cellWidth(n, w, h) == Norm(availableWidth(w), gridCols(n, w, h))
cellHeight(n, w, h) == Norm(availableHeight(h), gridRows(n, w, h))

\* NaN, the value of Math.sqrt of a negative number and of all arithmetic on it
NaN == <<0, 0>>
IsNumber(a) == a[2] # 0

\* aspectRatio < 0 (one available side negative): gridCols = Math.ceil(NaN)
LayoutIsNaN(w, h) == availableWidth(w) * availableHeight(h) < 0

\* the position of the node at `index` (from 0), with jitter j = <<jx, jy>>
GridPosition(index, n, w, h, j) ==
  IF LayoutIsNaN(w, h) THEN [x |-> NaN, y |-> NaN, vx |-> Zero, vy |-> Zero] ELSE
  LET row == index \div gridCols(n, w, h)
      col == index % gridCols(n, w, h)
      half == <<1, 2>>
      randomOffsetX == RMul(RMul(cellWidth(n, w, h), <<2, 5>>), j[1])
      randomOffsetY == RMul(RMul(cellHeight(n, w, h), <<2, 5>>), j[2])
  IN  [x |-> RAdd(RAdd(R(padding), RMul(cellWidth(n, w, h), RAdd(R(col), half))),
                  randomOffsetX),
       y |-> RAdd(RAdd(R(padding), RMul(cellHeight(n, w, h), RAdd(R(row), half))),
                  randomOffsetY),
       vx |-> Zero, vy |-> Zero]

\* the nodes the initializer would give a fresh position
Unplaced(pos, ns) == { id \in Range(ns) : ~KeepsPosition(pos, id) }

\* (mutant) every node is placed on the grid, positioned already or not
InitializePositionsAfresh(pos, ns, w, h, jit) ==
  IF w <= 0 \/ h <= 0 \/ Len(ns) = 0 THEN pos
  ELSE [id \in Range(ns) |-> GridPosition(IndexOf(ns, id), Len(ns), w, h, jit[id])]

\* (mutant) the entries of the nodes that keep their position are not copied
InitializePositionsOnlyNew(pos, ns, w, h, jit) ==
  IF w <= 0 \/ h <= 0 \/ Len(ns) = 0 THEN pos
  ELSE IF allNodesHavePositions(pos, ns) THEN pos
  ELSE [id \in Unplaced(pos, ns) |->
          GridPosition(IndexOf(ns, id), Len(ns), w, h, jit[id])]

\* nodePositions after the effect has run; jit gives the pair of
\* Math.random() - 0.5 values drawn for a node that gets a fresh position
InitializePositions(pos, ns, w, h, jit) ==
  IF w <= 0 \/ h <= 0 \/ Len(ns) = 0 THEN pos
  ELSE IF allNodesHavePositions(pos, ns) THEN pos
  ELSE [id \in Range(ns) |->
          IF KeepsPosition(pos, id)
            THEN [pos[id] EXCEPT !.vx = Zero, !.vy = Zero]
            ELSE GridPosition(IndexOf(ns, id), Len(ns), w, h, jit[id])]

----------------------------------------------------------------------------
(* Layout engine: one physics tick (simulatePhysics)                       *)
(* Lengths, velocities and forces are integers in units of 1/PhysRes px.   *)

\* round(a * b / c), c > 0
MulDiv(a, b, c) == DivRound(a * b, c)

\* multiplication by a rational program constant
Scaled(a, k) == MulDiv(a, k[1], k[2])

RECURSIVE Newton(_, _)
Newton(n, x) ==
  LET y == (x + n \div x) \div 2
  IN  IF y >= x THEN x ELSE Newton(n, y)
\* Math.sqrt, rounded to the nearest unit
ISqrt(n) ==
  IF n <= 0 THEN 0
  ELSE LET s == Newton(n, n)
       IN  IF n - s * s > s THEN s + 1 ELSE s

\* Math.sqrt(a * a + b * b); the squares of large operands are taken at a
\* coarser grain so that they stay representable
RECURSIVE Hypot(_, _)
Hypot(a, b) ==
  IF Abs(a) <= 30000 /\ Abs(b) <= 30000
    THEN ISqrt(a * a + b * b)
    ELSE 10 * Hypot(DivRound(a, 10), DivRound(b, 10))

\* `Math.sqrt(...) || 1`: a zero distance counts as one pixel
OrOne(d) == IF d = 0 THEN PhysRes ELSE d

ToUnits(p) == [x |-> Units(p.x), y |-> Units(p.y), vx |-> Units(p.vx), vy |-> Units(p.vy)]
FromUnits(u) ==
  [x |-> Norm(u.x, PhysRes), y |-> Norm(u.y, PhysRes),
   vx |-> Norm(u.vx, PhysRes), vy |-> Norm(u.vy, PhysRes)]

\* (mutant) nodes that are too close pull on each other
RepulsionTowards(p, o) ==
  LET dx == o.x - p.x
      dy == o.y - p.y
      distance == OrOne(Hypot(dx, dy))
      minU == MIN_DISTANCE * PhysRes
      t == minU - distance
      repulsionForce == MulDiv(MulDiv(t, t, minU), REPULSION_STRENGTH, MIN_DISTANCE)
  IN  IF distance < minU
        THEN <<MulDiv(dx, repulsionForce, distance), MulDiv(dy, repulsionForce, distance)>>
        ELSE <<0, 0>>

\* force on a node at p from another node at o when they are too close
Repulsion(p, o) ==
  LET dx == p.x - o.x
      dy == p.y - o.y
      distance == OrOne(Hypot(dx, dy))
      minU == MIN_DISTANCE * PhysRes
      t == minU - distance
      \* REPULSION_STRENGTH * (1 - distance / MIN_DISTANCE)^2
      repulsionForce == MulDiv(MulDiv(t, t, minU), REPULSION_STRENGTH, MIN_DISTANCE)
  IN  IF distance < minU
        THEN <<MulDiv(dx, repulsionForce, distance), MulDiv(dy, repulsionForce, distance)>>
        ELSE <<0, 0>>

\* force on a node at p from a connected node at o
Attraction(p, o) ==
  LET dx == o.x - p.x
      dy == o.y - p.y
      distance == OrOne(Hypot(dx, dy))
      maxU == MAX_DISTANCE * PhysRes
      constraintForce == Scaled(distance - maxU, CONSTRAINT_STRENGTH)
      \* ATTRACTION_STRENGTH * (distance / MAX_DISTANCE)
      attractionForce == Scaled(MulDiv(distance, 1, MAX_DISTANCE), ATTRACTION_STRENGTH)
      f == IF distance > maxU THEN constraintForce ELSE attractionForce
  IN  <<MulDiv(dx, f, distance), MulDiv(dy, f, distance)>>

\* neighbours of id: `if (source === id) add(target) else if (target === id) add(source)`
connectedNodeIds(es, id) ==
  { e[2] : e \in { f \in es : f[1] = id } } \cup
  { e[1] : e \in { f \in es : f[1] # id /\ f[2] = id } }

RECURSIVE SumForces(_, _, _, _)
\* the sum of F(p, pos[o]) over the ids o of `others` that have a position
SumForces(F(_, _), p, others, pos) ==
  IF others = {} THEN <<0, 0>>
  ELSE LET o == CHOOSE o \in others : TRUE
           rest == SumForces(F, p, others \ {o}, pos)
           f == IF o \in DOMAIN pos THEN F(p, ToUnits(pos[o])) ELSE <<0, 0>>
       IN  <<rest[1] + f[1], rest[2] + f[2]>>

\* the sum of the repulsion on node id at p from the nodes ns[lo..hi]: the
\* inner data.nodes.forEach, which skips the node itself and the nodes
\* without a position; the sum of integers is taken by halves
RECURSIVE SumRepulsion(_, _, _, _, _, _)
SumRepulsion(p, id, ns, lo, hi, pos) ==
  IF lo > hi THEN <<0, 0>>
  ELSE IF lo = hi
    THEN IF ns[lo] = id \/ ns[lo] \notin DOMAIN pos
           THEN <<0, 0>>
           ELSE Repulsion(p, ToUnits(pos[ns[lo]]))
    ELSE LET mid == (lo + hi) \div 2
             l == SumRepulsion(p, id, ns, lo, mid, pos)
             r == SumRepulsion(p, id, ns, mid + 1, hi, pos)
         IN  <<l[1] + r[1], l[2] + r[2]>>

\* (mutant) the velocity is cooled but not limited
CoolWithoutLimit(vx, vy) ==
  <<Scaled(vx, COOLING_FACTOR), Scaled(vy, COOLING_FACTOR)>>

\* velocity limited to MAX_VELOCITY, then cooled
LimitAndCool(vx, vy) ==
  LET speed == Hypot(vx, vy)
      maxV == MAX_VELOCITY * PhysRes
      lx == IF speed > maxV THEN MulDiv(vx, maxV, speed) ELSE vx
      ly == IF speed > maxV THEN MulDiv(vy, maxV, speed) ELSE vy
  IN  <<Scaled(lx, COOLING_FACTOR), Scaled(ly, COOLING_FACTOR)>>

\* boundary constraint on one axis: <<coordinate, velocity>> after the two tests
Bounce(x, v, size) ==
  LET pad == NODE_RADIUS * PhysRes
      hi == size * PhysRes - pad
      x1 == IF x < pad THEN pad ELSE x
      v1 == IF x < pad THEN MulDiv(v, -1, 2) ELSE v
      x2 == IF x1 > hi THEN hi ELSE x1
      v2 == IF x1 > hi THEN MulDiv(v1, -1, 2) ELSE v1
  IN  <<x2, v2>>

\* the body of the forEach for one node that has a position and is not dragged
StepNode(pos, id, ns, es, w, h) ==
  LET p == ToUnits(pos[id])
      gx == Scaled((w * PhysRes) \div 2 - p.x, CENTER_GRAVITY)
      gy == Scaled((h * PhysRes) \div 2 - p.y, CENTER_GRAVITY)
      rep == SumRepulsion(p, id, ns, 1, Len(ns), pos)
      att == SumForces(Attraction, p, connectedNodeIds(es, id), pos)
      forceX == gx + rep[1] + att[1]
      forceY == gy + rep[2] + att[2]
      v == LimitAndCool(Scaled(p.vx, DAMPING) + forceX, Scaled(p.vy, DAMPING) + forceY)
      bx == Bounce(p.x + v[1], v[1], w)
      by == Bounce(p.y + v[2], v[2], h)
  IN  [pos EXCEPT ![id] = FromUnits([x |-> bx[1], y |-> by[1], vx |-> bx[2], vy |-> by[2]])]

\* data.nodes.forEach over the nodes from index i on; each node sees the
\* positions the earlier nodes of the same tick were moved to
RECURSIVE StepFrom(_, _, _, _, _, _, _)
StepFrom(i, pos, ns, es, w, h, dragged) ==
  IF i > Len(ns) THEN pos
  ELSE IF ns[i] \notin DOMAIN pos \/ ns[i] = dragged
         THEN StepFrom(i + 1, pos, ns, es, w, h, dragged)
       ELSE StepFrom(i + 1, StepNode(pos, ns[i], ns, es, w, h), ns, es, w, h, dragged)

simulatePhysics(pos, ns, es, w, h, dragged) == StepFrom(1, pos, ns, es, w, h, dragged)

----------------------------------------------------------------------------
(* Effects                                                                 *)

\* (mutant) the effect without the test of draggedNode
PhysicsEffectIgnoringDrag(ns, w, h, al, dragged) ==
  /\ ~(w <= 0 \/ h <= 0 \/ Len(ns) = 0)
  /\ al

\* (mutant) the effect without the test of the dimensions and the Scene
PhysicsEffectUnguarded(ns, w, h, al, dragged) ==
  ~(~al \/ dragged # NoNode)

\* the physics effect: TRUE iff it leaves a physics frame requested
PhysicsEffect(ns, w, h, al, dragged) ==
  /\ ~(w <= 0 \/ h <= 0 \/ Len(ns) = 0)
  /\ ~(~al \/ dragged # NoNode)

\* the effect runs again only when one of its dependencies changed
PhysicsDepsChanged ==
  <<nodes, edges, width, height, autoLayout, draggedNode>>' #
  <<nodes, edges, width, height, autoLayout, draggedNode>>

\* `if (handle) cancelAnimationFrame(handle)`: the callbacks left in the queue
CancelIf(handle, pending) == IF handle THEN pending - 1 ELSE pending

\* the physics effect has run again: its cleanup cancels the frame the ref
\* holds, and its body requests a frame when it starts the loop
PhysicsEffectRan ==
  physicsPending' = CancelIf(animationRef, physicsPending)
                      + (IF animationRef' THEN 1 ELSE 0)

RunPhysicsEffect ==
  /\ animationRef' = IF PhysicsDepsChanged
                       THEN PhysicsEffect(nodes', width', height', autoLayout', draggedNode')
                       ELSE animationRef
  /\ IF PhysicsDepsChanged THEN PhysicsEffectRan ELSE physicsPending' = physicsPending

\* drawGraph is a new function when one of its dependencies changed
DrawDepsChanged ==
  <<nodes, edges, nodePositions, hoveredNode, draggedNode, scale, panOffset,
    width, height, autoLayout>>' #
  <<nodes, edges, nodePositions, hoveredNode, draggedNode, scale, panOffset,
    width, height, autoLayout>>

\* the render-loop effect: when drawGraph changed, its cleanup cancels the
\* frame requested last and its body requests a new one
RunRenderEffect ==
  renderPending' = IF DrawDepsChanged
                     THEN CancelIf(renderFrame, renderPending) + 1
                     ELSE renderPending

\* drawGraph: the edges that are stroked, those whose two ends are found in
\* data.nodes and have an entry in nodePositions
DrawnEdges(es, ns, pos) ==
  { e \in es : /\ e[1] \in Range(ns) /\ e[2] \in Range(ns)
               /\ e[1] \in DOMAIN pos /\ e[2] \in DOMAIN pos }

\* one more event within the budget of the model
CountStep == steps < MaxSteps /\ steps' = steps + 1

\* the "Physics" button drawn by drawControls
OnButton(p, w) == p[1] >= w - 120 /\ p[1] <= w - 20 /\ p[2] >= 20 /\ p[2] <= 60

----------------------------------------------------------------------------
(* Initial state and actions                                               *)

Init ==
  /\ nodes = InitialScene.nodes
  /\ edges = InitialScene.edges
  /\ \E size \in Sizes : width = size[1] /\ height = size[2]
  /\ nodePositions = <<>>
  /\ draggedNode = NoNode
  /\ hoveredNode = NoNode
  /\ offsetX = Zero
  /\ offsetY = Zero
  /\ isPanning = FALSE
  /\ panOffset = Pt(Zero, Zero)
  /\ panStart = Pt(0, 0)
  /\ scale \in InitScales
  /\ autoLayout = TRUE
  /\ animationRef = FALSE
  /\ renderFrame = FALSE
  /\ physicsPending = 0
  /\ renderPending = 0
  /\ mounted = FALSE
  /\ clickCalls = <<>>
  /\ dragCalls = <<>>
  /\ ev = [type |-> "none", x |-> 0, y |-> 0, zoomIn |-> FALSE,
           wasDragged |-> NoNode, wasPanning |-> FALSE]
  /\ steps = 0
  /\ nWheel = 0
  /\ closure = Snapshot

\* first render: the initializer, the physics effect and the render loop start
Mount ==
  /\ ~mounted
  /\ ev.type # "unmount"
  /\ mounted' = TRUE
  /\ \E jit \in Jitter :
       nodePositions' = InitializePositions(nodePositions, nodes, width, height, jit)
  /\ animationRef' = PhysicsEffect(nodes, width, height, autoLayout, draggedNode)
  /\ renderFrame' = TRUE
  /\ ev' = Event("mount", <<0, 0>>, FALSE)
  /\ UNCHANGED <<nodes, edges, width, height, draggedNode, hoveredNode, offsetX,
                 offsetY, isPanning, panOffset, panStart, scale, autoLayout,
                 clickCalls, dragCalls, steps, nWheel>>
  /\ PhysicsEffectRan
  /\ renderPending' = CancelIf(renderFrame, renderPending) + 1
  /\ Committed

\* (mutant) the operands swapped
GrabOffsetSwapped(transformed, coordinate) == RSub(coordinate, transformed)

\* transformed - nodePositions[nodeId], one axis
GrabOffset(transformed, coordinate) == RSub(transformed, coordinate)

handleMouseDown(p) ==
  LET nodeId == findNodeAtPosition(p[1], p[2], nodes, nodePositions, panOffset, scale)
      transformedX == ScreenToWorld(p[1], panOffset.x, scale)
      transformedY == ScreenToWorld(p[2], panOffset.y, scale)
  IN  /\ mounted
      /\ CountStep
      /\ IF nodeId # NoNode
           THEN /\ draggedNode' = nodeId
                /\ offsetX' = GrabOffset(transformedX, nodePositions[nodeId].x)
                /\ offsetY' = GrabOffset(transformedY, nodePositions[nodeId].y)
                /\ nodePositions' =
                     [nodePositions EXCEPT ![nodeId].vx = Zero, ![nodeId].vy = Zero]
                /\ UNCHANGED <<isPanning, panStart>>
           ELSE /\ isPanning' = TRUE
                /\ panStart' = Pt(p[1], p[2])
                /\ UNCHANGED <<draggedNode, offsetX, offsetY, nodePositions>>
      /\ ev' = Event("down", p, FALSE)
      /\ UNCHANGED <<nodes, edges, width, height, hoveredNode, panOffset, scale,
                     autoLayout, renderFrame, mounted, clickCalls, dragCalls,
                     nWheel>>
      /\ RunPhysicsEffect
      /\ RunRenderEffect
      /\ Committed

\* (mutant) the grab offset is forgotten
DragTargetWithoutOffset(transformed, offset) == transformed

\* transformed - offset, one axis
DragTarget(transformed, offset) == RSub(transformed, offset)

\* {...prev, [id]: {...prev[id], x, y, vx: 0, vy: 0}}
WithDragged(pos, id, x, y) ==
  [k \in DOMAIN pos \cup {id} |->
     IF k = id THEN [x |-> x, y |-> y, vx |-> Zero, vy |-> Zero] ELSE pos[k]]

handleMouseMove(p) ==
  LET nodeId == findNodeAtPosition(p[1], p[2], nodes, nodePositions, panOffset, scale)
      transformedX == ScreenToWorld(p[1], panOffset.x, scale)
      transformedY == ScreenToWorld(p[2], panOffset.y, scale)
  IN  /\ mounted
      /\ CountStep
      /\ hoveredNode' = nodeId
      /\ IF draggedNode # NoNode
           THEN /\ nodePositions' =
                     WithDragged(nodePositions, draggedNode,
                                 DragTarget(transformedX, offsetX),
                                 DragTarget(transformedY, offsetY))
                /\ UNCHANGED <<panOffset, panStart>>
           ELSE IF isPanning
             THEN /\ panOffset' = Pt(RAdd(panOffset.x, R(p[1] - panStart.x)),
                                     RAdd(panOffset.y, R(p[2] - panStart.y)))
                  /\ panStart' = Pt(p[1], p[2])
                  /\ UNCHANGED nodePositions
             ELSE UNCHANGED <<nodePositions, panOffset, panStart>>
      /\ ev' = Event("move", p, FALSE)
      /\ UNCHANGED <<nodes, edges, width, height, draggedNode, offsetX, offsetY,
                     isPanning, scale, autoLayout, animationRef, physicsPending, renderFrame, mounted,
                     clickCalls, dragCalls, nWheel>>
      /\ RunRenderEffect
      /\ Committed

\* (mutant) the pan is not ended
handleMouseUpKeepingPan ==
  /\ mounted
  /\ CountStep
  /\ draggedNode' = NoNode
  /\ ev' = Event("up", <<0, 0>>, FALSE)
  /\ UNCHANGED <<nodes, edges, width, height, nodePositions, hoveredNode, offsetX,
                 offsetY, isPanning, panOffset, panStart, scale, autoLayout,
                 renderFrame, mounted, clickCalls, dragCalls, nWheel>>
  /\ RunPhysicsEffect
  /\ RunRenderEffect
  /\ Committed

\* (mutant) the release also clears the hover
handleMouseUpClearingHover ==
  /\ mounted
  /\ CountStep
  /\ draggedNode' = NoNode
  /\ isPanning' = FALSE
  /\ hoveredNode' = NoNode
  /\ ev' = Event("up", <<0, 0>>, FALSE)
  /\ UNCHANGED <<nodes, edges, width, height, nodePositions, offsetX,
                 offsetY, panOffset, panStart, scale, autoLayout, renderFrame, mounted,
                 clickCalls, dragCalls, nWheel>>
  /\ RunPhysicsEffect
  /\ RunRenderEffect
  /\ Committed

\* ends any drag or pan
handleMouseUp ==
  /\ mounted
  /\ CountStep
  /\ draggedNode' = NoNode
  /\ isPanning' = FALSE
  /\ ev' = Event("up", <<0, 0>>, FALSE)
  /\ UNCHANGED <<nodes, edges, width, height, nodePositions, hoveredNode, offsetX,
                 offsetY, panOffset, panStart, scale, autoLayout, renderFrame, mounted,
                 clickCalls, dragCalls, nWheel>>
  /\ RunPhysicsEffect
  /\ RunRenderEffect
  /\ Committed

\* the canvas element's onMouseUp and onMouseLeave
MouseUp == handleMouseUp
MouseLeave == handleMouseUp

\* (mutant) the scale is not clamped
NewScaleUnclamped(sc, zoomIn) ==
  RMul(sc, IF zoomIn THEN ZoomInFactor ELSE ZoomOutFactor)

\* Math.max(0.1, Math.min(5, scale * scaleFactor))
NewScale(sc, zoomIn) ==
  RMax(MinScale, RMin(MaxScale, RMul(sc, IF zoomIn THEN ZoomInFactor ELSE ZoomOutFactor)))

\* (mutant) the zoom factor stands in for newScale / scale
NewPanOffsetByFactor(m, pan, sc, newScale) ==
  RSub(R(m), RMul(RSub(R(m), pan),
                  IF RLt(sc, newScale) THEN ZoomInFactor
                  ELSE IF RLt(newScale, sc) THEN ZoomOutFactor ELSE One))

\* mouse - (mouse - panOffset) * (newScale / scale), one axis
NewPanOffset(m, pan, sc, newScale) ==
  RSub(R(m), RMul(RSub(R(m), pan), RDiv(newScale, sc)))

\* (mutant) the wheel is ignored during a drag or a pan
handleWheelWhenIdle(p, zoomIn) ==
  LET idle     == draggedNode = NoNode /\ ~isPanning
      newScale == IF idle THEN NewScale(scale, zoomIn) ELSE scale
  IN  /\ mounted
      /\ CountStep
      /\ nWheel < MaxWheel
      /\ nWheel' = nWheel + 1
      /\ scale' = newScale
      /\ panOffset' = Pt(NewPanOffset(p[1], panOffset.x, scale, newScale),
                         NewPanOffset(p[2], panOffset.y, scale, newScale))
      /\ ev' = Event("wheel", p, zoomIn)
      /\ UNCHANGED <<nodes, edges, width, height, nodePositions, draggedNode,
                     hoveredNode, offsetX, offsetY, isPanning, panStart, autoLayout,
                     animationRef, physicsPending, renderFrame, mounted, clickCalls,
                     dragCalls>>
      /\ RunRenderEffect
      /\ Committed

handleWheel(p, zoomIn) ==
  LET newScale == NewScale(scale, zoomIn)
  IN  /\ mounted
      /\ CountStep
      /\ nWheel < MaxWheel
      /\ nWheel' = nWheel + 1
      /\ scale' = newScale
      /\ panOffset' = Pt(NewPanOffset(p[1], panOffset.x, scale, newScale),
                         NewPanOffset(p[2], panOffset.y, scale, newScale))
      /\ ev' = Event("wheel", p, zoomIn)
      /\ UNCHANGED <<nodes, edges, width, height, nodePositions, draggedNode,
                     hoveredNode, offsetX, offsetY, isPanning, panStart, autoLayout,
                     animationRef, physicsPending, renderFrame, mounted, clickCalls, dragCalls>>
      /\ RunRenderEffect
      /\ Committed

\* onClick: toggles the physics when the "Physics" button is hit
handleControlClick(p) ==
  /\ mounted
  /\ CountStep
  /\ autoLayout' = IF OnButton(p, width) THEN ~autoLayout ELSE autoLayout
  /\ ev' = Event("click", p, FALSE)
  /\ UNCHANGED <<nodes, edges, width, height, nodePositions, draggedNode, hoveredNode,
                 offsetX, offsetY, isPanning, panOffset, panStart, scale, renderFrame,
                 mounted, clickCalls, dragCalls, nWheel>>
  /\ RunPhysicsEffect
  /\ RunRenderEffect
  /\ Committed

\* the animation frame of the physics loop
PhysicsTick ==
  /\ mounted
  /\ CountStep
  /\ animationRef
  /\ nodePositions' =
       simulatePhysics(nodePositions, nodes, edges, width, height, draggedNode)
  /\ animationRef' = TRUE
  /\ ev' = Event("tick", <<0, 0>>, FALSE)
  /\ UNCHANGED <<nodes, edges, width, height, draggedNode, hoveredNode, offsetX,
                 offsetY, isPanning, panOffset, panStart, scale, autoLayout,
                 renderFrame, mounted, clickCalls, dragCalls, nWheel>>
  /\ physicsPending' = (physicsPending - 1) + 1
  /\ RunRenderEffect
  /\ Committed

\* the animation frame of the render loop: drawGraph reads the state, writes
\* none of it, and requests the next frame
RenderTick ==
  /\ mounted
  /\ renderFrame
  /\ renderFrame' = TRUE
  /\ UNCHANGED <<nodes, edges, width, height, nodePositions, draggedNode, hoveredNode,
                 offsetX, offsetY, isPanning, panOffset, panStart, scale, autoLayout,
                 animationRef, physicsPending, mounted, clickCalls, dragCalls, ev,
                 steps, nWheel>>
  /\ renderPending' = (renderPending - 1) + 1
  /\ Committed

\* (mutant) a new Scene snapshot also resets the viewport
RefreshResettingViewport(scene) ==
  /\ mounted
  /\ CountStep
  /\ nodes' = scene.nodes
  /\ edges' = scene.edges
  /\ \E jit \in Jitter :
       nodePositions' =
         InitializePositions(nodePositions, scene.nodes, width, height, jit)
  /\ animationRef' = PhysicsEffect(scene.nodes, width, height, autoLayout, draggedNode)
  /\ ev' = Event("refresh", <<0, 0>>, FALSE)
  /\ scale' = One
  /\ panOffset' = Pt(Zero, Zero)
  /\ UNCHANGED <<width, height, draggedNode, hoveredNode, offsetX, offsetY, isPanning,
                 panStart, autoLayout, renderFrame, mounted,
                 clickCalls, dragCalls, nWheel>>
  /\ PhysicsEffectRan
  /\ RunRenderEffect
  /\ Committed

\* the host supplies a new Scene snapshot: the initializer and the physics
\* effect run again
Refresh(scene) ==
  /\ mounted
  /\ CountStep
  /\ nodes' = scene.nodes
  /\ edges' = scene.edges
  /\ \E jit \in Jitter :
       nodePositions' =
         InitializePositions(nodePositions, scene.nodes, width, height, jit)
  /\ animationRef' = PhysicsEffect(scene.nodes, width, height, autoLayout, draggedNode)
  /\ ev' = Event("refresh", <<0, 0>>, FALSE)
  /\ UNCHANGED <<width, height, draggedNode, hoveredNode, offsetX, offsetY, isPanning,
                 panOffset, panStart, scale, autoLayout, renderFrame, mounted,
                 clickCalls, dragCalls, nWheel>>
  /\ PhysicsEffectRan
  /\ RunRenderEffect
  /\ Committed

\* the host passes a new canvas size: the initializer and the physics effect
\* run again
Resize(size) ==
  /\ mounted
  /\ CountStep
  /\ size # <<width, height>>
  /\ width' = size[1]
  /\ height' = size[2]
  /\ \E jit \in Jitter :
       nodePositions' =
         InitializePositions(nodePositions, nodes, size[1], size[2], jit)
  /\ animationRef' = PhysicsEffect(nodes, size[1], size[2], autoLayout, draggedNode)
  /\ ev' = Event("resize", <<0, 0>>, FALSE)
  /\ UNCHANGED <<nodes, edges, draggedNode, hoveredNode, offsetX, offsetY, isPanning,
                 panOffset, panStart, scale, autoLayout, renderFrame, mounted,
                 clickCalls, dragCalls, nWheel>>
  /\ PhysicsEffectRan
  /\ RunRenderEffect
  /\ Committed

\* teardown: React runs the cleanup of the physics effect and of the
\* render-loop effect; the component handles no event afterwards
Unmount ==
  /\ mounted
  /\ CountStep
  /\ mounted' = FALSE
  /\ physicsPending' = CancelIf(animationRef, physicsPending)
  /\ animationRef' = FALSE
  /\ renderPending' = CancelIf(renderFrame, renderPending)
  /\ renderFrame' = FALSE
  /\ ev' = Event("unmount", <<0, 0>>, FALSE)
  /\ UNCHANGED <<nodes, edges, width, height, nodePositions, draggedNode, hoveredNode,
                 offsetX, offsetY, isPanning, panOffset, panStart, scale, autoLayout,
                 clickCalls, dragCalls, nWheel>>
  /\ Committed

Next ==
  \/ Mount
  \/ \E p \in Points : handleMouseDown(p)
  \/ \E p \in MovePoints : handleMouseMove(p)
  \/ MouseUp
  \/ MouseLeave
  \/ \E p \in WheelPoints, zoomIn \in BOOLEAN : handleWheel(p, zoomIn)
  \/ \E p \in ClickPoints : handleControlClick(p)
  \/ PhysicsTick
  \/ RenderTick
  \/ \E scene \in Scenes : Refresh(scene)
  \/ \E size \in Sizes : Resize(size)
  \/ Unmount

Spec == Init /\ [][Next]_vars

----------------------------------------------------------------------------
(* The initializer on its own: Scenes of 0..MaxNodes nodes laid out from    *)
(* scratch on several canvases, then grown once                             *)

InitLayout ==
  /\ \E n \in 0..MaxNodes : nodes = FirstNodes(n)
  /\ edges = {}
  /\ \E size \in LayoutSizes : width = size[1] /\ height = size[2]
  /\ nodePositions = <<>>
  /\ draggedNode = NoNode
  /\ hoveredNode = NoNode
  /\ offsetX = Zero
  /\ offsetY = Zero
  /\ isPanning = FALSE
  /\ panOffset = Pt(Zero, Zero)
  /\ panStart = Pt(0, 0)
  /\ scale = One
  /\ autoLayout = FALSE
  /\ animationRef = FALSE
  /\ renderFrame = FALSE
  /\ physicsPending = 0
  /\ renderPending = 0
  /\ mounted = FALSE
  /\ clickCalls = <<>>
  /\ dragCalls = <<>>
  /\ ev = [type |-> "none", x |-> 0, y |-> 0, zoomIn |-> FALSE,
           wasDragged |-> NoNode, wasPanning |-> FALSE]
  /\ steps = 0
  /\ nWheel = 0
  /\ closure = Snapshot

\* first render of a Scene of any size: the initializer and the physics
\* effect run (the physics is switched off in InitLayout)
MountLayout ==
  /\ ~mounted
  /\ mounted' = TRUE
  /\ \E jit \in LayoutJitter :
       nodePositions' = InitializePositions(nodePositions, nodes, width, height, jit)
  /\ animationRef' = PhysicsEffect(nodes, width, height, autoLayout, draggedNode)
  /\ renderFrame' = TRUE
  /\ ev' = Event("mount", <<0, 0>>, FALSE)
  /\ UNCHANGED <<nodes, edges, width, height, draggedNode, hoveredNode, offsetX,
                 offsetY, isPanning, panOffset, panStart, scale, autoLayout,
                 clickCalls, dragCalls, steps, nWheel>>
  /\ PhysicsEffectRan
  /\ renderPending' = CancelIf(renderFrame, renderPending) + 1
  /\ Committed

\* the host adds nodes to the Scene, once: the initializer runs again
GrowScene(n) ==
  /\ mounted
  /\ steps = 0
  /\ steps' = 1
  /\ n > Len(nodes)
  /\ nodes' = FirstNodes(n)
  /\ \E jit \in LayoutJitter :
       nodePositions' = InitializePositions(nodePositions, FirstNodes(n), width, height, jit)
  /\ ev' = Event("refresh", <<0, 0>>, FALSE)
  /\ UNCHANGED <<edges, width, height, draggedNode, hoveredNode, offsetX, offsetY,
                 isPanning, panOffset, panStart, scale, autoLayout, animationRef, physicsPending,
                 renderFrame, mounted, clickCalls, dragCalls, nWheel>>
  /\ RunRenderEffect
  /\ Committed

NextLayout ==
  \/ MountLayout
  \/ \E n \in 1..MaxNodes : GrowScene(n)

SpecLayout == InitLayout /\ [][NextLayout]_vars

----------------------------------------------------------------------------
(* The layout engine on its own: two connected nodes at rest, a given      *)
(* distance apart, and the physics ticks that follow                        *)

\* canvases: a square window and two side-by-side QHD screens
TickSizes == { <<800, 800>>, <<5120, 1440>> }

\* where the first node is, relative to the canvas centre
TickOffsets ==
  { <<ox, oy>> : ox \in {-2400, -300, 0, 200}, oy \in {-300, 0, 200} }

\* directions from the first node to the second, as 5 * unit vector
TickDirections ==
  { <<5, 0>>, <<-5, 0>>, <<0, 5>>, <<0, -5>>,
    <<3, 4>>, <<-3, -4>>, <<4, -3>>, <<-4, 3>> }

\* the two separations of the scenario, in fifths of a pixel-free unit:
\* (MAX_DISTANCE + 50) / 5 and (MIN_DISTANCE / 2) / 5
FarFifth == (MAX_DISTANCE + 50) \div 5
NearFifth == (MIN_DISTANCE \div 2) \div 5

\* a point that the boundary constraint leaves alone, also one tick later
ClearOfBoundary(x, y, w, h) ==
  /\ x >= NODE_RADIUS + MAX_VELOCITY /\ x <= w - NODE_RADIUS - MAX_VELOCITY
  /\ y >= NODE_RADIUS + MAX_VELOCITY /\ y <= h - NODE_RADIUS - MAX_VELOCITY

AtRest(x, y) == [x |-> R(x), y |-> R(y), vx |-> Zero, vy |-> Zero]

InitTick ==
  /\ nodes = <<"a", "b">>
  /\ edges = {<<"a", "b">>}
  /\ \E size \in TickSizes, o \in TickOffsets, d \in TickDirections,
        fifth \in {FarFifth, NearFifth} :
       LET ax == size[1] \div 2 + o[1]
           ay == size[2] \div 2 + o[2]
           bx == ax + d[1] * fifth
           by == ay + d[2] * fifth
       IN  /\ width = size[1] /\ height = size[2]
           /\ ClearOfBoundary(ax, ay, size[1], size[2])
           /\ ClearOfBoundary(bx, by, size[1], size[2])
           /\ nodePositions = [id \in {"a", "b"} |->
                                 IF id = "a" THEN AtRest(ax, ay) ELSE AtRest(bx, by)]
  /\ draggedNode = NoNode
  /\ hoveredNode = NoNode
  /\ offsetX = Zero
  /\ offsetY = Zero
  /\ isPanning = FALSE
  /\ panOffset = Pt(Zero, Zero)
  /\ panStart = Pt(0, 0)
  /\ scale = One
  /\ autoLayout = TRUE
  /\ animationRef = TRUE
  /\ renderFrame = TRUE
  /\ physicsPending = 1
  /\ renderPending = 1
  /\ mounted = TRUE
  /\ clickCalls = <<>>
  /\ dragCalls = <<>>
  /\ ev = [type |-> "none", x |-> 0, y |-> 0, zoomIn |-> FALSE,
           wasDragged |-> NoNode, wasPanning |-> FALSE]
  /\ steps = 0
  /\ nWheel = 0
  /\ closure = Snapshot

NextTick == PhysicsTick

SpecTick == InitTick /\ [][NextTick]_vars

----------------------------------------------------------------------------
(* The layout engine left to itself: N nodes, no edges, laid out on the    *)
(* grid and then moved by the physics alone                                 *)

SettleCounts == {0, 2, 3, CrowdCount}
SettleSizes == { <<800, 600>>, <<600, 400>> }

InitSettle ==
  /\ \E n \in SettleCounts : nodes = FirstNodes(n)
  /\ edges = {}
  /\ \E size \in SettleSizes : width = size[1] /\ height = size[2]
  /\ nodePositions = <<>>
  /\ draggedNode = NoNode
  /\ hoveredNode = NoNode
  /\ offsetX = Zero
  /\ offsetY = Zero
  /\ isPanning = FALSE
  /\ panOffset = Pt(Zero, Zero)
  /\ panStart = Pt(0, 0)
  /\ scale = One
  /\ autoLayout = TRUE
  /\ animationRef = FALSE
  /\ renderFrame = FALSE
  /\ physicsPending = 0
  /\ renderPending = 0
  /\ mounted = FALSE
  /\ clickCalls = <<>>
  /\ dragCalls = <<>>
  /\ ev = [type |-> "none", x |-> 0, y |-> 0, zoomIn |-> FALSE,
           wasDragged |-> NoNode, wasPanning |-> FALSE]
  /\ steps = 0
  /\ nWheel = 0
  /\ closure = Snapshot

\* the animation frame of the physics loop, followed for SettleTicks frames
SettleTick ==
  /\ mounted
  /\ animationRef
  /\ steps < SettleTicks
  /\ steps' = steps + 1
  /\ nodePositions' =
       simulatePhysics(nodePositions, nodes, edges, width, height, draggedNode)
  /\ animationRef' = TRUE
  /\ ev' = Event("tick", <<0, 0>>, FALSE)
  /\ UNCHANGED <<nodes, edges, width, height, draggedNode, hoveredNode, offsetX,
                 offsetY, isPanning, panOffset, panStart, scale, autoLayout,
                 renderFrame, mounted, clickCalls, dragCalls, nWheel>>
  /\ physicsPending' = (physicsPending - 1) + 1
  /\ RunRenderEffect
  /\ Committed

NextSettle ==
  \/ MountLayout
  \/ SettleTick

\* the steps that are the first render, and those that are a physics frame
MountDue == ~mounted /\ mounted' = TRUE
TickDue == mounted /\ animationRef /\ steps < SettleTicks /\ steps' = steps + 1

\* React renders the component, and the browser runs every animation frame
\* that is requested
SpecSettle ==
  InitSettle /\ [][NextSettle]_vars /\ WF_mounted(MountDue) /\ WF_steps(TickDue)

----------------------------------------------------------------------------
(* The renders made explicit.  React renders at once after a discrete      *)
(* event (mousedown, mouseup); after a continuous event (mousemove, wheel) *)
(* and after a state update made in an animation frame it renders in a     *)
(* later task, and a handler that runs before that render is the function  *)
(* of the previous render, with that render's state in its closure.        *)

\* onMouseDown: the hit test, the grab offset and the pan start are computed
\* from the closure; the velocity reset is a functional update
MouseDownEvent(p) ==
  LET c == closure
      nodeId == findNodeAtPosition(p[1], p[2], nodes, c.nodePositions, c.panOffset, c.scale)
      transformedX == ScreenToWorld(p[1], c.panOffset.x, c.scale)
      transformedY == ScreenToWorld(p[2], c.panOffset.y, c.scale)
  IN  /\ mounted
      /\ CountStep
      /\ IF nodeId # NoNode
           THEN /\ draggedNode' = nodeId
                /\ offsetX' = GrabOffset(transformedX, c.nodePositions[nodeId].x)
                /\ offsetY' = GrabOffset(transformedY, c.nodePositions[nodeId].y)
                /\ nodePositions' =
                     [nodePositions EXCEPT ![nodeId].vx = Zero, ![nodeId].vy = Zero]
                /\ UNCHANGED <<isPanning, panStart>>
           ELSE /\ isPanning' = TRUE
                /\ panStart' = Pt(p[1], p[2])
                /\ UNCHANGED <<draggedNode, offsetX, offsetY, nodePositions>>
      /\ ev' = Event("down", p, FALSE)
      /\ UNCHANGED <<nodes, edges, width, height, hoveredNode, panOffset, scale,
                     autoLayout, renderFrame, mounted, clickCalls, dragCalls,
                     nWheel>>
      /\ RunPhysicsEffect
      /\ RunRenderEffect
      /\ Committed

\* onMouseMove: the branch taken, the viewport, the grab offset and the pan
\* start come from the closure; setNodePositions and setPanOffset are
\* functional updates of the current state; no render follows at once
MouseMoveEvent(p) ==
  LET c == closure
      nodeId == findNodeAtPosition(p[1], p[2], nodes, c.nodePositions, c.panOffset, c.scale)
      transformedX == ScreenToWorld(p[1], c.panOffset.x, c.scale)
      transformedY == ScreenToWorld(p[2], c.panOffset.y, c.scale)
  IN  /\ mounted
      /\ CountStep
      /\ hoveredNode' = nodeId
      /\ IF c.draggedNode # NoNode
           THEN /\ nodePositions' =
                     WithDragged(nodePositions, c.draggedNode,
                                 DragTarget(transformedX, c.offsetX),
                                 DragTarget(transformedY, c.offsetY))
                /\ UNCHANGED <<panOffset, panStart>>
           ELSE IF c.isPanning
             THEN /\ panOffset' = Pt(RAdd(panOffset.x, R(p[1] - c.panStart.x)),
                                     RAdd(panOffset.y, R(p[2] - c.panStart.y)))
                  /\ panStart' = Pt(p[1], p[2])
                  /\ UNCHANGED nodePositions
             ELSE UNCHANGED <<nodePositions, panOffset, panStart>>
      /\ ev' = Event("move", p, FALSE)
      /\ UNCHANGED <<nodes, edges, width, height, draggedNode, offsetX, offsetY,
                     isPanning, scale, autoLayout, animationRef, physicsPending,
                     renderFrame, renderPending, closure, mounted,
                     clickCalls, dragCalls, nWheel>>

\* onMouseUp: reads nothing; a discrete event
MouseUpEvent ==
  /\ mounted
  /\ CountStep
  /\ draggedNode' = NoNode
  /\ isPanning' = FALSE
  /\ ev' = Event("up", <<0, 0>>, FALSE)
  /\ UNCHANGED <<nodes, edges, width, height, nodePositions, hoveredNode, offsetX,
                 offsetY, panOffset, panStart, scale, autoLayout, renderFrame, mounted,
                 clickCalls, dragCalls, nWheel>>
  /\ RunPhysicsEffect
  /\ RunRenderEffect
  /\ Committed

\* onWheel: scale and panOffset are read from the closure and set outright;
\* no render follows at once
WheelEvent(p, zoomIn) ==
  LET c == closure
      newScale == NewScale(c.scale, zoomIn)
  IN  /\ mounted
      /\ CountStep
      /\ nWheel < MaxWheel
      /\ nWheel' = nWheel + 1
      /\ scale' = newScale
      /\ panOffset' = Pt(NewPanOffset(p[1], c.panOffset.x, c.scale, newScale),
                         NewPanOffset(p[2], c.panOffset.y, c.scale, newScale))
      /\ ev' = Event("wheel", p, zoomIn)
      /\ UNCHANGED <<nodes, edges, width, height, nodePositions, draggedNode,
                     hoveredNode, offsetX, offsetY, isPanning, panStart, autoLayout,
                     animationRef, physicsPending, renderFrame, renderPending,
                     closure, mounted, clickCalls, dragCalls>>

\* the animation frame of the physics loop: a functional update of the
\* current positions; no render follows at once
PhysicsFrame ==
  /\ mounted
  /\ CountStep
  /\ animationRef
  /\ nodePositions' =
       simulatePhysics(nodePositions, nodes, edges, width, height, draggedNode)
  /\ animationRef' = TRUE
  /\ physicsPending' = (physicsPending - 1) + 1
  /\ ev' = Event("tick", <<0, 0>>, FALSE)
  /\ UNCHANGED <<nodes, edges, width, height, draggedNode, hoveredNode, offsetX,
                 offsetY, isPanning, panOffset, panStart, scale, autoLayout,
                 renderFrame, renderPending, closure, mounted, clickCalls,
                 dragCalls, nWheel>>

\* the render that React had scheduled: every callback is made anew with the
\* current state, and the render-loop effect restarts with the new drawGraph
Commit ==
  /\ mounted
  /\ closure # Snapshot
  /\ closure' = Snapshot
  /\ renderPending' = CancelIf(renderFrame, renderPending) + 1
  /\ UNCHANGED <<nodes, edges, width, height, nodePositions, draggedNode, hoveredNode,
                 offsetX, offsetY, isPanning, panOffset, panStart, scale, autoLayout,
                 animationRef, physicsPending, renderFrame, mounted, clickCalls,
                 dragCalls, ev, steps, nWheel>>

NextClosure ==
  \/ Mount
  \/ \E p \in Points : MouseDownEvent(p)
  \/ \E p \in MovePoints : MouseMoveEvent(p)
  \/ MouseUpEvent
  \/ \E p \in WheelPoints, zoomIn \in BOOLEAN : WheelEvent(p, zoomIn)
  \/ PhysicsFrame
  \/ Commit

SpecClosure == Init /\ [][NextClosure]_vars

----------------------------------------------------------------------------
(* The boundary constraint: two nodes at rest where drags have left them,  *)
(* inside the canvas or outside of it, on canvases of several sizes, and   *)
(* the physics ticks that follow                                            *)

\* canvases: a window, two that are narrower than two node radii in one
\* direction, and one that is exactly two radii wide and high
BoundsSizes == { <<800, 600>>, <<60, 600>>, <<300, 80>>, <<90, 90>> }

\* where the first node was dropped
BoundsPoints == { <<-20, 300>>, <<47, 46>>, <<400, 300>>, <<900, 700>>, <<44, 50>> }

\* from the first node to the second: close by (they repel), or far off
BoundsOffsets == { <<30, 0>>, <<0, -30>>, <<300, 0>> }

InitBounds ==
  /\ nodes = <<"a", "b">>
  /\ edges = {<<"a", "b">>}
  /\ \E size \in BoundsSizes : width = size[1] /\ height = size[2]
  /\ \E p \in BoundsPoints, o \in BoundsOffsets :
       nodePositions = [id \in {"a", "b"} |->
                          IF id = "a" THEN AtRest(p[1], p[2])
                          ELSE AtRest(p[1] + o[1], p[2] + o[2])]
  /\ draggedNode = NoNode
  /\ hoveredNode = NoNode
  /\ offsetX = Zero
  /\ offsetY = Zero
  /\ isPanning = FALSE
  /\ panOffset = Pt(Zero, Zero)
  /\ panStart = Pt(0, 0)
  /\ scale = One
  /\ autoLayout = TRUE
  /\ animationRef = TRUE
  /\ renderFrame = TRUE
  /\ physicsPending = 1
  /\ renderPending = 1
  /\ mounted = TRUE
  /\ clickCalls = <<>>
  /\ dragCalls = <<>>
  /\ ev = [type |-> "none", x |-> 0, y |-> 0, zoomIn |-> FALSE,
           wasDragged |-> NoNode, wasPanning |-> FALSE]
  /\ steps = 0
  /\ nWheel = 0
  /\ closure = Snapshot

NextBounds == PhysicsTick

SpecBounds == InitBounds /\ [][NextBounds]_vars

----------------------------------------------------------------------------
(* The hit test: Scenes whose nodes lie apart, overlap or coincide, seen    *)
(* through several viewports, and the pointer moved over them               *)

\* data.nodes in several orders, and a Scene that has lost two nodes
HitScenes == { <<"a", "b", "c">>, <<"c", "a", "b">>, <<"b">> }

\* position tables left by layout and drags: b and c overlapping; c a pixel
\* further from (245, 300) than a, which is NODE_RADIUS from it; all three in
\* one place; and a table without an entry for c
HitLayouts ==
  { [id \in Ids |-> IF id = "a" THEN AtRest(245, 300)
                    ELSE IF id = "b" THEN AtRest(555, 300) ELSE AtRest(590, 300)],
    [id \in Ids |-> IF id = "a" THEN AtRest(272, 336)
                    ELSE IF id = "b" THEN AtRest(555, 300) ELSE AtRest(273, 336)],
    [id \in Ids |-> AtRest(245, 300)],
    [id \in {"a", "b"} |-> IF id = "a" THEN AtRest(245, 300) ELSE AtRest(265, 310)] }

\* viewports that wheel events and pans lead to
HitScales == { One, <<1, 2>>, <<11, 10>> }
HitPans == { Pt(Zero, Zero), Pt(R(30), R(-20)) }

\* where the pointer is moved to
HitProbes == { <<245, 300>>, <<290, 300>>, <<570, 300>>, <<600, 330>>, <<700, 40>> }

InitHit ==
  /\ nodes \in HitScenes
  /\ edges = {}
  /\ nodePositions \in HitLayouts
  \* a node of the Scene is without an entry only while the canvas has no extent
  /\ width = (IF Range(nodes) \subseteq DOMAIN nodePositions THEN CanvasWidth ELSE 0)
  /\ height = (IF Range(nodes) \subseteq DOMAIN nodePositions THEN CanvasHeight ELSE 0)
  /\ draggedNode = NoNode
  /\ hoveredNode = NoNode
  /\ offsetX = Zero
  /\ offsetY = Zero
  /\ isPanning = FALSE
  /\ panOffset \in HitPans
  /\ panStart = Pt(0, 0)
  /\ scale \in HitScales
  /\ autoLayout = FALSE
  /\ animationRef = FALSE
  /\ renderFrame = TRUE
  /\ physicsPending = 0
  /\ renderPending = 1
  /\ mounted = TRUE
  /\ clickCalls = <<>>
  /\ dragCalls = <<>>
  /\ ev = [type |-> "none", x |-> 0, y |-> 0, zoomIn |-> FALSE,
           wasDragged |-> NoNode, wasPanning |-> FALSE]
  /\ steps = 0
  /\ nWheel = 0
  /\ closure = Snapshot

NextHit == \E p \in HitProbes : handleMouseMove(p)

SpecHit == InitHit /\ [][NextHit]_vars

----------------------------------------------------------------------------
(* Properties                                                              *)

\* the step just taken handled an event of this type
Handled(type) == ev'.type = type /\ steps' = steps + 1

\* the world-space point under screen point p
WorldPoint(p, pan, sc) ==
  Pt(ScreenToWorld(p[1], pan.x, sc), ScreenToWorld(p[2], pan.y, sc))

\* the nodes of the Scene whose centre is within NODE_RADIUS of screen point p
NodesAt(p) ==
  { n \in Range(nodes) \cap DOMAIN nodePositions :
      WithinDistance(RSub(nodePositions[n].x, WorldPoint(p, panOffset, scale).x),
                     RSub(nodePositions[n].y, WorldPoint(p, panOffset, scale).y),
                     NODE_RADIUS) }

Idle == draggedNode = NoNode /\ ~isPanning

\* C1: whenever a pointerup or pointerleave ends a drag, onNodeDrag is invoked
\* exactly once with the dragged node's id and its final world position, and
\* the interaction state afterwards is Idle.
C1_DragReported ==
  [][(Handled("up") /\ draggedNode # NoNode /\ draggedNode \in DOMAIN nodePositions)
       => /\ dragCalls' = Append(dragCalls, <<draggedNode,
                                              nodePositions[draggedNode].x,
                                              nodePositions[draggedNode].y>>)
          /\ Idle']_vars

\* C2: a tap on node n (a pointerdown that hits n, then a pointerup with
\* nothing in between) invokes onNodeClick(n); no other pointerup invokes it.
C2_TapReported ==
  [][Handled("up")
       => IF ev.type = "down" /\ draggedNode # NoNode
             /\ draggedNode \in NodesAt(<<ev.x, ev.y>>)
            THEN clickCalls' = Append(clickCalls, draggedNode)
            ELSE clickCalls' = clickCalls]_vars

\* C3: while the physics is off or a node is dragged no physics tick runs (no
\* physics frame is even requested) and the render frame stays requested;
\* with the physics on and nothing dragged the physics frame is requested.
C3_PhysicsPaused ==
  /\ [](mounted =>
          /\ renderFrame
          /\ animationRef <=> (/\ autoLayout /\ draggedNode = NoNode
                               /\ width > 0 /\ height > 0 /\ Len(nodes) > 0))
  /\ [][(~autoLayout \/ draggedNode # NoNode)
          => (~Handled("tick") /\ ENABLED RenderTick)]_vars

C3_Witness ==
  /\ mounted /\ draggedNode # NoNode /\ autoLayout
  /\ ~animationRef /\ renderFrame

C5_UpLeavesIdle == ev.type = "up" => Idle

C5_Witness ==
  /\ ev.type = "up" /\ ev.wasDragged # NoNode /\ ev.wasPanning /\ Idle

C9_RoundTrip ==
  \A p \in Points :
    /\ WorldToScreen(ScreenToWorld(p[1], panOffset.x, scale), panOffset.x, scale) = R(p[1])
    /\ WorldToScreen(ScreenToWorld(p[2], panOffset.y, scale), panOffset.y, scale) = R(p[2])

C9_Witness ==
  /\ scale # One /\ panOffset.x # Zero /\ panOffset.y # Zero
  /\ panOffset.x[2] # 1

\* the x and y of every entry
Positions(pos) == [id \in DOMAIN pos |-> <<pos[id].x, pos[id].y>>]

\* C10: on a Scene all of whose nodes have a nonzero position the initializer
\* changes no position, and on any Scene running it twice gives the positions
\* of running it once.
C10_InitializerIdempotent ==
  mounted =>
    \A jit1 \in Jitter, jit2 \in Jitter :
      /\ allNodesHavePositions(nodePositions, nodes)
           => Positions(InitializePositions(nodePositions, nodes, width, height, jit1))
                = Positions(nodePositions)
      /\ \A scene \in Scenes :
           LET once == InitializePositions(nodePositions, scene.nodes, width, height, jit1)
           IN  Positions(InitializePositions(once, scene.nodes, width, height, jit2))
                 = Positions(once)

\* a refresh of a Scene whose nodes all had positions, and were moving
C10_Witness ==
  /\ ev.type = "refresh" /\ Range(nodes) = {"a", "b"}
  /\ DOMAIN nodePositions = {"a", "b"}
  /\ nodePositions["a"].vx # Zero

\* C11: a refresh that adds a node without a position leaves every node that
\* was in the Scene with a nonzero position (x # 0 or y # 0) at that position,
\* with velocity 0 when the initializer ran.
C11_RefreshKeepsPositions ==
  [][(Handled("refresh") /\ \E m \in Range(nodes') : m \notin DOMAIN nodePositions)
       => \A n \in Range(nodes) \cap Range(nodes') \cap DOMAIN nodePositions :
            (nodePositions[n].x # Zero \/ nodePositions[n].y # Zero)
              => /\ n \in DOMAIN nodePositions'
                 /\ nodePositions'[n].x = nodePositions[n].x
                 /\ nodePositions'[n].y = nodePositions[n].y
                 /\ (width > 0 /\ height > 0)
                      => nodePositions'[n].vx = Zero /\ nodePositions'[n].vy = Zero]_vars

\* C12: a Scene of one node on an 800 x 600 canvas is laid out with the node
\* at the canvas centre (400, 300).
C12_SingleNodeCentred ==
  (mounted /\ Len(nodes) = 1 /\ width = 800 /\ height = 600)
    => /\ nodes[1] \in DOMAIN nodePositions
       /\ nodePositions[nodes[1]].x = R(400)
       /\ nodePositions[nodes[1]].y = R(300)

RFloor(a) == a[1] \div a[2]

\* the grid cell <<row, col>> of an n-node layout in which position p lies
CellOf(p, n, w, h) ==
  << RFloor(RDiv(RSub(p.y, R(2 * NODE_RADIUS)), cellHeight(n, w, h))),
     RFloor(RDiv(RSub(p.x, R(2 * NODE_RADIUS)), cellWidth(n, w, h))) >>

\* |a - b| <= c
RWithin(a, b, c) == RLe(RSub(a, b), c) /\ RLe(RSub(b, a), c)

\* one run of the initializer that placed nodes put the i-th node of the Scene,
\* if it lacked a position, in cell (i div gridCols, i mod gridCols), within
\* 40% of the cell size of the cell's centre, inside the padded canvas
PlacedInCells(before, after, ns, w, h) ==
  LET n == Len(ns)
      cw == cellWidth(n, w, h)
      ch == cellHeight(n, w, h)
      pad == 2 * NODE_RADIUS
  IN  \A id \in Unplaced(before, ns) :
        LET i == IndexOf(ns, id)
            row == i \div gridCols(n, w, h)
            col == i % gridCols(n, w, h)
            p == after[id]
        IN  /\ IsNumber(p.x) /\ IsNumber(p.y)
            /\ CellOf(p, n, w, h) = <<row, col>>
            /\ RWithin(p.x, RAdd(R(pad), RMul(cw, <<2 * col + 1, 2>>)), RMul(cw, <<2, 5>>))
            /\ RWithin(p.y, RAdd(R(pad), RMul(ch, <<2 * row + 1, 2>>)), RMul(ch, <<2, 5>>))
            /\ RLe(R(pad), p.x) /\ RLe(p.x, R(w - pad))
            /\ RLe(R(pad), p.y) /\ RLe(p.y, R(h - pad))
            /\ \A other \in Unplaced(before, ns) \ {id} :
                 /\ IsNumber(after[other].x) /\ IsNumber(after[other].y)
                 /\ CellOf(after[other], n, w, h) # CellOf(p, n, w, h)

\* the step ran the initializer past its early returns
InitializerPlaced ==
  /\ mounted'
  /\ ev'.type \in {"mount", "refresh"} /\ (~mounted \/ steps' = steps + 1)
  /\ width > 0 /\ height > 0 /\ Len(nodes') > 0
  /\ ~allNodesHavePositions(nodePositions, nodes')

\* C14: every run of the initializer gives each node that lacks a position a
\* place in the grid cell of its index, no two of them in the same cell, each
\* inside its cell and inside the padded canvas area.
C14_CellPerNode ==
  [][InitializerPlaced
       => /\ DOMAIN nodePositions' = Range(nodes')
          /\ PlacedInCells(nodePositions, nodePositions', nodes', width, height)]_vars

\* the same on the canvases whose available area is positive
C14_OnRoomyCanvas ==
  [][(InitializerPlaced /\ availableWidth(width) > 0 /\ availableHeight(height) > 0)
       => /\ DOMAIN nodePositions' = Range(nodes')
          /\ PlacedInCells(nodePositions, nodePositions', nodes', width, height)]_vars

\* an empty Scene or a canvas without extent
Degenerate(ns, w, h) == w <= 0 \/ h <= 0 \/ Len(ns) = 0

\* C15: while the Scene is empty or the width or height is <= 0 no physics
\* frame is requested and no physics tick runs, and the initializer, run by a
\* mount, a refresh or a resize into such a state, changes no position, no
\* velocity and nothing of the viewport.
C15_DegenerateIsNoOp ==
  /\ []((mounted /\ Degenerate(nodes, width, height)) => ~animationRef)
  /\ [][Degenerate(nodes, width, height) => ~Handled("tick")]_vars
  /\ [][(/\ Degenerate(nodes', width', height')
         /\ \/ Handled("refresh") \/ Handled("resize")
            \/ (~mounted /\ mounted'))
          => /\ nodePositions' = nodePositions
             /\ scale' = scale /\ panOffset' = panOffset]_vars

\* the canvas lost its extent while the nodes were moving
C15_Witness ==
  /\ mounted /\ ev.type = "resize" /\ width = 0
  /\ \E n \in DOMAIN nodePositions : nodePositions[n].vx # Zero
  /\ ~animationRef /\ autoLayout /\ draggedNode = NoNode

\* the edges both of whose ends are nodes of the Scene with a position entry
LiveEdges == { e \in edges : {e[1], e[2]} \subseteq Range(nodes) \cap DOMAIN nodePositions }

\* C16: an edge with an end that is no node of the Scene, or has no position
\* entry, is not drawn and pulls on no node: a physics tick moves the nodes as
\* it would if the Scene had only its other edges.
C16_DanglingEdgesSkipped ==
  /\ [](DrawnEdges(edges, nodes, nodePositions) = LiveEdges)
  /\ [][Handled("tick")
          => nodePositions' =
               simulatePhysics(nodePositions, nodes, LiveEdges, width, height,
                               draggedNode)]_vars

\* the node being dragged is no longer in the Scene
DraggedNodeRemoved == draggedNode # NoNode /\ draggedNode \notin Range(nodes)

\* C17: once the dragged node has been removed from the Scene a pointermove
\* writes nothing for it (no entry is created or updated), and the next
\* pointerup leaves the state Idle.
C17_RemovedNodeNotWritten ==
  /\ [][(Handled("move") /\ DraggedNodeRemoved) => nodePositions' = nodePositions]_vars
  /\ [][(Handled("up") /\ DraggedNodeRemoved) => Idle']_vars

\* C20: scale and panOffset change only in a wheel event and in a pointermove
\* that pans (panning on, no node dragged); every other step leaves both as
\* they were.
C20_ViewportWriters ==
  [][(scale' # scale \/ panOffset' # panOffset)
       => \/ Handled("wheel")
          \/ Handled("move") /\ isPanning /\ draggedNode = NoNode]_vars

\* a physics tick has run on a zoomed and panned viewport
C20_Witness ==
  /\ ev.type = "tick" /\ nWheel > 0
  /\ scale # One /\ panOffset.x # Zero /\ panOffset.y # Zero

\* the sign of (separation of a and b in `after`)^2 - (their separation in
\* `before`)^2, computed as a sum of products of differences
SeparationChange(before, after) ==
  LET dx0 == Units(before["b"].x) - Units(before["a"].x)
      dy0 == Units(before["b"].y) - Units(before["a"].y)
      dx1 == Units(after["b"].x) - Units(after["a"].x)
      dy1 == Units(after["b"].y) - Units(after["a"].y)
  IN  (dx1 - dx0) * (dx1 + dx0) + (dy1 - dy0) * (dy1 + dy0)

\* the separation of a and b, rounded, in units of 1/PhysRes pixel
Separation(pos) ==
  Hypot(Units(pos["b"].x) - Units(pos["a"].x), Units(pos["b"].y) - Units(pos["a"].y))

\* the pair is at rest, the given number of pixels apart
RestingApart(d) ==
  /\ steps = 0
  /\ \A n \in {"a", "b"} : nodePositions[n].vx = Zero /\ nodePositions[n].vy = Zero
  /\ Separation(nodePositions) = d * PhysRes

NearCentre ==
  \A n \in {"a", "b"} :
    /\ RWithin(nodePositions[n].x, <<width, 2>>, R(MAX_DISTANCE))
    /\ RWithin(nodePositions[n].y, <<height, 2>>, R(MAX_DISTANCE))

CentreDistance(a, b) ==
  Hypot(Units(nodePositions[a].x) - Units(nodePositions[b].x),
        Units(nodePositions[a].y) - Units(nodePositions[b].y))

\* no two nodes of the Scene are closer than d pixels
Apart(d) ==
  \A a \in Range(nodes) \cap DOMAIN nodePositions :
    \A b \in (Range(nodes) \cap DOMAIN nodePositions) \ {a} :
      CentreDistance(a, b) >= d * PhysRes

CrowdNeverApart ==
  (mounted /\ Len(nodes) = CrowdCount /\ width = 600) => ~Apart(2 * NODE_RADIUS)

\* the frame queue holds what the handles say: one callback for a set handle
PendingMatchesHandles ==
  /\ physicsPending = (IF animationRef THEN 1 ELSE 0)
  /\ renderPending = (IF renderFrame THEN 1 ELSE 0)

\* the canvas has no extent
InvalidDimensions == width <= 0 \/ height <= 0

LoopsStoppableButRender ==
  /\ physicsPending <= 1 /\ renderPending <= 1
  /\ ev.type = "unmount" => (physicsPending = 0 /\ renderPending = 0)
  /\ (mounted /\ InvalidDimensions) => (physicsPending = 0 /\ renderPending = 1)

\* the component was torn down while both loops were running
TornDownWhileRunning ==
  /\ ev.type = "unmount" /\ ~mounted /\ autoLayout /\ draggedNode = NoNode
  /\ width > 0 /\ Len(nodes) > 0 /\ steps > 1

\* the fields of an entry of nodePositions
EntryFields == {"x", "y", "vx", "vy"}

\* C22: while the Scene is not empty and the canvas has an extent, from the
\* first run of the initializer on, every node of the Scene has one entry in
\* nodePositions, a position and a velocity, whatever ticks, drags, pans,
\* zooms and refreshes have happened.
C22_EveryNodeHasEntry ==
  (mounted /\ ~Degenerate(nodes, width, height))
    => \A n \in Range(nodes) :
         /\ Cardinality({ k \in DOMAIN nodePositions : k = n }) = 1
         /\ DOMAIN nodePositions[n] = EntryFields

\* a tick has run after a refresh added a third node to two placed ones
C22_Witness ==
  /\ mounted /\ ev.type = "tick" /\ nodes = <<"a", "b", "c">>
  /\ DOMAIN nodePositions = {"a", "b", "c"}
  /\ nodePositions["c"].vx # Zero

\* the handler that has just run read state that was current
RanOnCurrentState ==
  /\ closure.nodePositions = nodePositions
  /\ closure.panOffset = panOffset /\ closure.scale = scale
  /\ closure.panStart = panStart
  /\ closure.offsetX = offsetX /\ closure.offsetY = offsetY

\* C23: what a render tick reads (the closure of the last render) is always
\* the whole state as it was after some event, taken over in one piece, and
\* after a pointerdown it is the state with the dragged node and its grab
\* offset, or with the pan and its start; and every pointerdown, pointermove
\* and wheel handler computes from the positions, viewport, grab offset and
\* pan start that are current when it runs.
C23_RenderAtomicity ==
  /\ [][closure' = closure \/ closure' = Snapshot']_vars
  /\ [][Handled("down") => closure' = Snapshot']_vars
  /\ [][(Handled("down") \/ Handled("move") \/ Handled("wheel"))
          => RanOnCurrentState]_vars

\* the first half of C23 alone: the render reads whole states only
RenderReadsWholeStates ==
  /\ [][closure' = closure \/ closure' = Snapshot']_vars
  /\ [][Handled("down") => closure' = Snapshot']_vars

\* a second wheel event has been handled before the render of the first
StaleWheel ==
  /\ ev.type = "wheel" /\ nWheel = 2 /\ closure.scale # scale
  /\ scale = RMul(closure.scale, ZoomInFactor)

\* the nodes that a tick integrates
Integrated(id) ==
  id \in Range(nodes) /\ id \in DOMAIN nodePositions /\ id # draggedNode

\* the table after the first k nodes of the forEach have been moved
RECURSIVE StepUpTo(_, _, _, _, _, _, _)
StepUpTo(k, pos, ns, es, w, h, dragged) ==
  IF k = 0 THEN pos
  ELSE LET prev == StepUpTo(k - 1, pos, ns, es, w, h, dragged)
       IN  IF ns[k] \notin DOMAIN prev \/ ns[k] = dragged THEN prev
           ELSE StepNode(prev, ns[k], ns, es, w, h)

\* position and velocity of a node after `position += velocity`, before the
\* boundary tests, in units of 1/PhysRes pixel
Unclamped(pos, id, ns, es, w, h) ==
  LET p == ToUnits(pos[id])
      gx == Scaled((w * PhysRes) \div 2 - p.x, CENTER_GRAVITY)
      gy == Scaled((h * PhysRes) \div 2 - p.y, CENTER_GRAVITY)
      rep == SumRepulsion(p, id, ns, 1, Len(ns), pos)
      att == SumForces(Attraction, p, connectedNodeIds(es, id), pos)
      v == LimitAndCool(Scaled(p.vx, DAMPING) + gx + rep[1] + att[1],
                        Scaled(p.vy, DAMPING) + gy + rep[2] + att[2])
  IN  [x |-> p.x + v[1], y |-> p.y + v[2], vx |-> v[1], vy |-> v[2]]

\* a coordinate, in units, outside of [radius, size - radius]
OutOfBounds(x, size) ==
  x < NODE_RADIUS * PhysRes \/ x > (size - NODE_RADIUS) * PhysRes

\* the tick left node ns[k] within the canvas bounds, and where it clamped a
\* coordinate it left the negated half of the velocity
BouncedInBounds(k) ==
  LET id == nodes[k]
      before == StepUpTo(k - 1, nodePositions, nodes, edges, width, height, draggedNode)
      pre == Unclamped(before, id, nodes, edges, width, height)
      after == ToUnits(nodePositions'[id])
  IN  /\ ~OutOfBounds(after.x, width)
      /\ ~OutOfBounds(after.y, height)
      /\ OutOfBounds(pre.x, width) => after.vx = MulDiv(pre.vx, -1, 2)
      /\ OutOfBounds(pre.y, height) => after.vy = MulDiv(pre.vy, -1, 2)

\* C24: after every physics tick each node that the tick integrated is within
\* the canvas bounds (radius <= x <= width - radius, radius <= y <= height -
\* radius) on every canvas, also one narrower than two radii, and for each
\* coordinate that was clamped the velocity component is the negated half of
\* what it was before the clamp.
C24_ClampedToCanvas ==
  [][Handled("tick")
       => \A k \in 1..Len(nodes) : Integrated(nodes[k]) => BouncedInBounds(k)]_vars

\* the same on the canvases that are at least two radii wide and high
ClampedToRoomyCanvas ==
  [][(Handled("tick") /\ width >= 2 * NODE_RADIUS /\ height >= 2 * NODE_RADIUS)
       => \A k \in 1..Len(nodes) : Integrated(nodes[k]) => BouncedInBounds(k)]_vars

\* a node dropped right of the window was brought back to the edge
BouncedOffTheEdge ==
  /\ ev.type = "tick" /\ width = 800
  /\ nodePositions["a"].x = R(800 - NODE_RADIUS)
  /\ RLt(Zero, nodePositions["a"].vx)

\* MAX_VELOCITY * COOLING_FACTOR in units of 1/PhysRes pixel, and what the
\* rounding of the two velocity components can add to a speed: each is
\* rounded twice, by at most half a unit each time
SpeedCap == Scaled(MAX_VELOCITY * PhysRes, COOLING_FACTOR)
RoundingSlack == 2

\* the square of the speed of an entry, in units
SpeedSquared(p) == Units(p.vx) * Units(p.vx) + Units(p.vy) * Units(p.vy)

\* C25: after every physics tick the speed of every node is at most
\* MAX_VELOCITY * COOLING_FACTOR (to the grain of the arithmetic), and while a
\* node is dragged its velocity is 0, whatever ticks and pointermoves happen.
C25_SpeedLimited ==
  /\ [][Handled("tick")
          => \A n \in DOMAIN nodePositions' :
               SpeedSquared(nodePositions'[n])
                 <= (SpeedCap + RoundingSlack) * (SpeedCap + RoundingSlack)]_vars
  /\ []((draggedNode # NoNode /\ draggedNode \in DOMAIN nodePositions)
          => /\ nodePositions[draggedNode].vx = Zero
             /\ nodePositions[draggedNode].vy = Zero)

\* a tick has pushed a node away from a neighbour at the highest speed
C25_Witness ==
  /\ ev.type = "tick"
  /\ \E n \in DOMAIN nodePositions :
       SpeedSquared(nodePositions[n]) >= (SpeedCap - 1) * (SpeedCap - 1)

\* C26: while panning (no node dragged) every pointermove adds to panOffset
\* the pointer's screen-space move since the previous pointer event of the
\* gesture, whose position panStart holds, whatever renders and ticks come
\* between the events, so that the moves of a gesture add up to (last pointer
\* position - pointerdown position); positions, velocities and scale are left
\* alone.
C26_PanFollowsPointer ==
  [][(Handled("move") /\ isPanning /\ draggedNode = NoNode)
       => /\ panOffset' = Pt(RAdd(panOffset.x, R(ev'.x - panStart.x)),
                             RAdd(panOffset.y, R(ev'.y - panStart.y)))
          /\ nodePositions' = nodePositions
          /\ scale' = scale]_vars

\* a pan of two pointermoves, the second one handled before the render of
\* the first, has moved the viewport further than the pointer went
PanOvershoots ==
  /\ ev.type = "move" /\ isPanning /\ steps = 3
  /\ closure.panStart # panStart
  /\ closure.panOffset = Pt(Zero, Zero) /\ closure.scale = scale
  /\ panOffset # Pt(R(panStart.x - closure.panStart.x), R(panStart.y - closure.panStart.y))

\* the indices of the nodes of ns that have an entry in pos with the centre
\* within NODE_RADIUS of the world point under screen point p
HitIndices(p, ns, pos, pan, sc) ==
  { i \in 1..Len(ns) :
      /\ ns[i] \in DOMAIN pos
      /\ WithinDistance(RSub(pos[ns[i]].x, WorldPoint(p, pan, sc).x),
                        RSub(pos[ns[i]].y, WorldPoint(p, pan, sc).y),
                        NODE_RADIUS) }

\* the node that is hit at p: of the nodes within reach the last in the
\* Scene's order, none when there is no such node
TopMostHit(p, ns, pos, pan, sc) ==
  LET hits == HitIndices(p, ns, pos, pan, sc)
  IN  IF hits = {} THEN NoNode
      ELSE ns[CHOOSE i \in hits : \A j \in hits : j <= i]

\* C27: every pointermove, with a node dragged, while panning or with neither,
\* sets hoveredNode to the node hit at the pointer's position (none when no
\* node is hit there), and no other step changes hoveredNode.
C27_HoverFollowsPointer ==
  /\ [][Handled("move")
          => hoveredNode' = TopMostHit(<<ev'.x, ev'.y>>, nodes, closure.nodePositions,
                                       closure.panOffset, closure.scale)]_vars
  /\ [][hoveredNode' # hoveredNode => Handled("move")]_vars

\* a pan has taken the pointer over a node, which is hovered, and the button
\* was released there
C27_Witness ==
  /\ ev.type = "up" /\ ev.wasPanning /\ ev.wasDragged = NoNode
  /\ hoveredNode # NoNode /\ Idle

\* C28: the hit test returns none exactly when no node of the Scene with a
\* position entry has its centre within NODE_RADIUS (inclusive) of the
\* pointer's world point, and otherwise the last such node in the order of
\* the Scene; it never returns a node without a position entry.
C28_HitTestTopMost ==
  [][Handled("move")
       => LET hits == HitIndices(<<ev'.x, ev'.y>>, nodes, nodePositions, panOffset, scale)
          IN  /\ (hoveredNode' = NoNode) <=> (hits = {})
              /\ hits # {} => \E i \in hits : /\ nodes[i] = hoveredNode'
                                              /\ \A j \in hits : j <= i
              /\ hoveredNode' # NoNode
                   => hoveredNode' \in Range(nodes) \cap DOMAIN nodePositions]_vars

\* the pointer is over two overlapping nodes and the later one is returned,
\* which is not the last node of the Scene
C28_Witness ==
  /\ ev.type = "move"
  /\ Cardinality(HitIndices(<<ev.x, ev.y>>, nodes, nodePositions, panOffset, scale)) = 2
  /\ hoveredNode = "b" /\ nodes = <<"c", "a", "b">>

\* the pointer is exactly NODE_RADIUS from a node's centre, which is hit
HitOnTheRim ==
  /\ ev.type = "move" /\ ev.x = 290 /\ ev.y = 300 /\ scale = One
  /\ panOffset = Pt(Zero, Zero) /\ nodePositions["a"].x = R(245)
  /\ "a" \in Range(nodes) /\ hoveredNode = "a" /\ Len(nodes) = 3
  /\ nodePositions["b"].x = R(555)

\* C29: a wheel event is handled in every interaction state (Idle, Panning,
\* DraggingNode): whatever the state, the zoom is applied to the scale the
\* handler sees; and it changes
\* nothing but scale and panOffset: the dragged node, the grab offset, panning
\* and its start, the hovered node, the physics flag and every position and
\* velocity stay as they were.
C29_WheelInEveryState ==
  [][Handled("wheel")
       => /\ scale' = NewScale(closure.scale, ev'.zoomIn)
          /\ draggedNode' = draggedNode /\ isPanning' = isPanning
          /\ offsetX' = offsetX /\ offsetY' = offsetY
          /\ panStart' = panStart /\ hoveredNode' = hoveredNode
          /\ autoLayout' = autoLayout /\ animationRef' = animationRef
          /\ nodePositions' = nodePositions]_vars

\* the wheel was turned during a drag, over the dragged node: the zoom was
\* applied and the drag goes on
C29_Witness ==
  /\ ev.type = "wheel" /\ ev.wasDragged # NoNode
  /\ draggedNode = ev.wasDragged /\ hoveredNode = draggedNode
  /\ scale = <<11, 10>>

\* the wheel was turned during a pan, and the pan goes on
WheelWhilePanning ==
  /\ ev.type = "wheel" /\ ev.wasPanning /\ isPanning
  /\ draggedNode = NoNode /\ scale = <<9, 10>>

\* the other two interaction states of the handlers
Panning == draggedNode = NoNode /\ isPanning
DraggingNode == draggedNode # NoNode /\ ~isPanning

\* C30: the interaction state is always exactly one of Idle, Panning and
\* DraggingNode: in no reachable state is a node dragged while panning is
\* active, whatever the sequence of pointer, wheel and tick events.
C30_OneInteractionState == Idle \/ Panning \/ DraggingNode

\* what does hold: a node is dragged while panning is active only after a
\* pointerdown, and the next pointerup or pointerleave ends both
DraggedWhilePanningOnlyByDown ==
  [][/\ (~(draggedNode # NoNode /\ isPanning) /\ draggedNode' # NoNode /\ isPanning')
          => Handled("down")
     /\ Handled("up") => (draggedNode' = NoNode /\ ~isPanning')]_vars

\* a pointermove arrived while a node was dragged and panning was active: the
\* node followed the pointer and the viewport stayed
MovedWhileDraggedAndPanning ==
  /\ ev.type = "move" /\ ev.wasDragged # NoNode /\ ev.wasPanning
  /\ draggedNode = ev.wasDragged /\ isPanning

====
